---- MODULE Spec2Model ----
(***************************************************************************)
(* Block storage of the papyrus node: the header stream of                 *)
(* crates/starknet_node/src/storage/header.rs over the markers, headers    *)
(* and block_hash_to_number tables, the read-write transaction that the    *)
(* append operations consume and return, and the gateway calls exercised   *)
(* by crates/starknet_node/src/gateway/gateway_test.rs.                    *)
(***************************************************************************)
EXTENDS Integers, Sequences, FiniteSets, TLC

\* Appends are offered the block numbers 0..MaxBlock.
MaxBlock == 2
\* Block hashes are 0..MaxHash (0 is the hash of BlockHeader::default()).
MaxHash == 2

BlockNumbers == 0..MaxBlock
BlockHashes == 0..MaxHash

\* The marker kinds of the Markers table.
MarkerKinds == {"Header", "Body", "State", "CompiledClass", "BaseLayer"}

\* The read-only transactions that can be open at once.
MaxReaders == 2

Readers == 1..MaxReaders

VARIABLES
    db,        \* the committed tables of the environment
    rw,        \* the open read-write StorageTxn: <<>> or <<its tables>>
    appended,  \* per stream, the appends that succeeded in the open StorageTxn
    last,      \* the last call made on the storage and what it returned
    ro,        \* per reader, its open read-only StorageTxn: None or Some(tables)
    waiting,   \* a begin_rw_txn was called with a StorageTxn open, and blocks
    expanded   \* the last expansion of versioned_rpc: None or Some(it)

vars == <<db, rw, appended, last, ro, waiting, expanded>>

\* Option<T>: None is <<>>, Some(v) is <<v>>.
None == <<>>
Some(v) == <<v>>

\* A table with no entries.
EmptyTable == <<>>

\* ---- the key-value tables (storage/db.rs, not part of the sources) ----

\* TableHandle::get: the value stored under key, if any.
TableGet(table, key) ==
    IF key \in DOMAIN table THEN Some(table[key]) ELSE None

\* The table with key bound to value, whatever it held before.
Put(table, key, value) ==
    [k \in (DOMAIN table) \cup {key} |-> IF k = key THEN value ELSE table[k]]

\* TableHandle::insert: fails with KeyExist when the key is present.
TableInsert(table, key, value) ==
    IF key \in DOMAIN table
    THEN [ok |-> FALSE, table |-> table]
    ELSE [ok |-> TRUE, table |-> Put(table, key, value)]

\* TableHandle::upsert: overwrites.
TableUpsert(table, key, value) == Put(table, key, value)

\* ---- results ----

Ok == [kind |-> "Ok"]
MarkerMismatch(expected, found) ==
    [kind |-> "MarkerMismatch", expected |-> expected, found |-> found]
BlockHashAlreadyExists(block_hash, block_number) ==
    [kind |-> "BlockHashAlreadyExists", block_hash |-> block_hash,
     block_number |-> block_number]
\* DbError::InnerDbError(KeyExist) converted by `?` into a StorageError.
InnerDbError == [kind |-> "InnerDbError"]
TransactionHashAlreadyExists(tx_hash) ==
    [kind |-> "TransactionHashAlreadyExists", tx_hash |-> tx_hash]
ContractAlreadyExists(address) ==
    [kind |-> "ContractAlreadyExists", address |-> address]
\* An append_state_diff for a block that has no header; no error is named
\* for it.
HeaderMissing(block_number) ==
    [kind |-> "HeaderMissing", block_number |-> block_number]
\* JsonRpcError::NoBlocks
InvalidBlockId == [kind |-> "InvalidBlockId"]
InvalidTransactionHash == [kind |-> "InvalidTransactionHash"]
InvalidTransactionIndex == [kind |-> "InvalidTransactionIndex"]
ContractNotFound == [kind |-> "ContractNotFound"]
NoBlocks == [kind |-> "NoBlocks"]

\* Option::unwrap_or_default on a BlockNumber.
unwrap_or_default(opt) == IF opt = None THEN 0 ELSE opt[1]

\* ---- HeaderStorageReader ----

\* get_header_marker reading the marker of another stream.
get_header_marker_body_kind(tables) ==
    unwrap_or_default(TableGet(tables.markers, "Body"))

get_header_marker(tables) ==
    unwrap_or_default(TableGet(tables.markers, "Header"))

get_block_header(tables, block_number) ==
    TableGet(tables.headers, block_number)

\* get_block_number_by_hash with the missing entry defaulted to block 0.
get_block_number_by_hash_or_default(tables, block_hash) ==
    Some(unwrap_or_default(TableGet(tables.block_hash_to_number, block_hash)))

get_block_number_by_hash(tables, block_hash) ==
    TableGet(tables.block_hash_to_number, block_hash)

\* ---- HeaderStorageWriter ----

\* update_marker with expected and found exchanged in the error.
update_marker_swapped(tables, block_number) ==
    LET header_marker == unwrap_or_default(TableGet(tables.markers, "Header")) IN
    IF header_marker # block_number
    THEN [res |-> MarkerMismatch(block_number, header_marker), tables |-> tables]
    ELSE [res |-> Ok,
          tables |-> [tables EXCEPT
              !.markers = TableUpsert(@, "Header", block_number + 1)]]

\* update_marker that upserts block_number, not block_number.next().
update_marker_no_next(tables, block_number) ==
    LET header_marker == unwrap_or_default(TableGet(tables.markers, "Header")) IN
    IF header_marker # block_number
    THEN [res |-> MarkerMismatch(header_marker, block_number), tables |-> tables]
    ELSE [res |-> Ok,
          tables |-> [tables EXCEPT
              !.markers = TableUpsert(@, "Header", block_number)]]

\* update_marker that refuses only a block number below the marker.
update_marker_allows_gap(tables, block_number) ==
    LET header_marker == unwrap_or_default(TableGet(tables.markers, "Header")) IN
    IF header_marker > block_number
    THEN [res |-> MarkerMismatch(header_marker, block_number), tables |-> tables]
    ELSE [res |-> Ok,
          tables |-> [tables EXCEPT
              !.markers = TableUpsert(@, "Header", block_number + 1)]]

\* update_marker that refuses only a block number above the marker.
update_marker_allows_replay(tables, block_number) ==
    LET header_marker == unwrap_or_default(TableGet(tables.markers, "Header")) IN
    IF header_marker < block_number
    THEN [res |-> MarkerMismatch(header_marker, block_number), tables |-> tables]
    ELSE [res |-> Ok,
          tables |-> [tables EXCEPT
              !.markers = TableUpsert(@, "Header", block_number + 1)]]

\* update_marker advancing the marker under MarkerKind::State.
update_marker_state_kind(tables, block_number) ==
    LET header_marker == unwrap_or_default(TableGet(tables.markers, "Header")) IN
    IF header_marker # block_number
    THEN [res |-> MarkerMismatch(header_marker, block_number), tables |-> tables]
    ELSE [res |-> Ok,
          tables |-> [tables EXCEPT
              !.markers = TableUpsert(@, "State", block_number + 1)]]

\* update_marker: check the marker against block_number, then advance it.
update_marker(tables, block_number) ==
    LET header_marker == unwrap_or_default(TableGet(tables.markers, "Header")) IN
    IF header_marker # block_number
    THEN [res |-> MarkerMismatch(header_marker, block_number), tables |-> tables]
    ELSE [res |-> Ok,
          tables |-> [tables EXCEPT
              !.markers = TableUpsert(@, "Header", block_number + 1)]]

\* update_hash_mapping with upsert for insert.
update_hash_mapping_upsert(tables, block_header, block_number) ==
    [res |-> Ok,
     tables |-> [tables EXCEPT !.block_hash_to_number =
                    TableUpsert(@, block_header.block_hash, block_number)]]

\* update_hash_mapping reporting the block that owns the hash.
update_hash_mapping_owner(tables, block_header, block_number) ==
    LET ins == TableInsert(tables.block_hash_to_number,
                           block_header.block_hash, block_number) IN
    IF ins.ok
    THEN [res |-> Ok, tables |-> [tables EXCEPT !.block_hash_to_number = ins.table]]
    ELSE [res |-> BlockHashAlreadyExists(block_header.block_hash,
                      tables.block_hash_to_number[block_header.block_hash]),
          tables |-> tables]

\* update_hash_mapping: strict insert of block_hash -> block_number.
update_hash_mapping(tables, block_header, block_number) ==
    LET ins == TableInsert(tables.block_hash_to_number,
                           block_header.block_hash, block_number) IN
    IF ins.ok
    THEN [res |-> Ok, tables |-> [tables EXCEPT !.block_hash_to_number = ins.table]]
    ELSE [res |-> BlockHashAlreadyExists(block_header.block_hash, block_number),
          tables |-> tables]

\* append_header writing the hash mapping before it checks the marker.
append_header_mapping_first(tables, block_number, block_header) ==
    LET u == update_hash_mapping(tables, block_header, block_number) IN
    IF u.res # Ok THEN u
    ELSE LET m == update_marker(u.tables, block_number) IN
         IF m.res # Ok THEN m
         ELSE LET ins == TableInsert(m.tables.headers, block_number,
                                     block_header) IN
              IF ~ins.ok THEN [res |-> InnerDbError, tables |-> m.tables]
              ELSE [res |-> Ok,
                    tables |-> [m.tables EXCEPT !.headers = ins.table]]

\* append_header refusing a header whose number field is not the block
\* number it is appended at.
append_header_checks_number(tables, block_number, block_header) ==
    IF block_header.number # block_number
    THEN [res |-> MarkerMismatch(block_number, block_header.number),
          tables |-> tables]
    ELSE LET m == update_marker(tables, block_number) IN
         IF m.res # Ok THEN m
         ELSE LET ins == TableInsert(m.tables.headers, block_number,
                                     block_header) IN
              IF ~ins.ok THEN [res |-> InnerDbError, tables |-> m.tables]
              ELSE update_hash_mapping([m.tables EXCEPT !.headers = ins.table],
                                       block_header, block_number)

\* append_header: marker, then header, then hash mapping; each `?` returns
\* the error with the writes made so far left in the transaction.
append_header(tables, block_number, block_header) ==
    LET m == update_marker(tables, block_number) IN
    IF m.res # Ok THEN m
    ELSE LET ins == TableInsert(m.tables.headers, block_number, block_header) IN
         IF ~ins.ok THEN [res |-> InnerDbError, tables |-> m.tables]
         ELSE update_hash_mapping([m.tables EXCEPT !.headers = ins.table],
                                  block_header, block_number)

\* ---- the body and state streams (storage/body.rs and storage/state.rs are
\* not part of the sources; their callers in gateway_test.rs are) ----

get_body_marker(tables) ==
    unwrap_or_default(TableGet(tables.markers, "Body"))

get_state_marker(tables) ==
    unwrap_or_default(TableGet(tables.markers, "State"))

\* The marker protocol of a stream: check, then advance.
update_stream_marker(tables, kind, block_number) ==
    LET marker == unwrap_or_default(TableGet(tables.markers, kind)) IN
    IF marker # block_number
    THEN [res |-> MarkerMismatch(marker, block_number), tables |-> tables]
    ELSE [res |-> Ok,
          tables |-> [tables EXCEPT
              !.markers = TableUpsert(@, kind, block_number + 1)]]

\* write_transactions overwriting the entry of an indexed hash.
RECURSIVE write_transactions_upsert(_, _, _, _)
write_transactions_upsert(tables, block_number, transactions, i) ==
    IF i > Len(transactions) THEN [res |-> Ok, tables |-> tables]
    ELSE write_transactions_upsert(
             [tables EXCEPT !.transaction_hash_to_idx =
                 TableUpsert(@, transactions[i].transaction_hash,
                             <<block_number, i - 1>>)],
             block_number, transactions, i + 1)

\* Strict insert of tx_hash -> (block_number, index) for the transactions
\* of a body from index i on.
RECURSIVE write_transactions(_, _, _, _)
write_transactions(tables, block_number, transactions, i) ==
    IF i > Len(transactions) THEN [res |-> Ok, tables |-> tables]
    ELSE LET tx_hash == transactions[i].transaction_hash
             ins == TableInsert(tables.transaction_hash_to_idx, tx_hash,
                                <<block_number, i - 1>>) IN
         IF ~ins.ok
         THEN [res |-> TransactionHashAlreadyExists(tx_hash), tables |-> tables]
         ELSE write_transactions([tables EXCEPT !.transaction_hash_to_idx = ins.table],
                                 block_number, transactions, i + 1)

\* append_body: the body marker must equal block_number. No header is
\* asked for: test_get_transaction_by_hash appends body 0 to a store that
\* holds no header, commits, and reads the transaction back.
append_body(tables, block_number, block_body) ==
    LET m == update_stream_marker(tables, "Body", block_number) IN
    IF m.res # Ok THEN m
    ELSE LET ins == TableInsert(m.tables.bodies, block_number, block_body) IN
         IF ~ins.ok THEN [res |-> InnerDbError, tables |-> m.tables]
         ELSE write_transactions([m.tables EXCEPT !.bodies = ins.table],
                                 block_number, block_body, 1)

\* write_deployed_contracts overwriting the entry of a deployed address.
RECURSIVE write_deployed_contracts_upsert(_, _, _, _)
write_deployed_contracts_upsert(tables, block_number, deployed_contracts, i) ==
    IF i > Len(deployed_contracts) THEN [res |-> Ok, tables |-> tables]
    ELSE write_deployed_contracts_upsert(
             [tables EXCEPT !.deployed_at =
                 TableUpsert(@, deployed_contracts[i], block_number)],
             block_number, deployed_contracts, i + 1)

\* Strict insert of address -> block_number for the deployed contracts of
\* a state diff from index i on.
RECURSIVE write_deployed_contracts(_, _, _, _)
write_deployed_contracts(tables, block_number, deployed_contracts, i) ==
    IF i > Len(deployed_contracts) THEN [res |-> Ok, tables |-> tables]
    ELSE LET ins == TableInsert(tables.deployed_at, deployed_contracts[i],
                                block_number) IN
         IF ~ins.ok
         THEN [res |-> ContractAlreadyExists(deployed_contracts[i]), tables |-> tables]
         ELSE write_deployed_contracts([tables EXCEPT !.deployed_at = ins.table],
                                       block_number, deployed_contracts, i + 1)

\* The storage table is keyed (address, key, block_number): each entry
\* of the diff writes its value under the block of the diff, from index i
\* on.
RECURSIVE write_storage_diffs(_, _, _, _)
write_storage_diffs(tables, block_number, storage_diffs, i) ==
    IF i > Len(storage_diffs) THEN tables
    ELSE LET e == storage_diffs[i] IN
         write_storage_diffs(
             [tables EXCEPT !.contract_storage =
                 TableUpsert(@, <<e.address, e.key, block_number>>, e.value)],
             block_number, storage_diffs, i + 1)

\* append_state_diff: the state marker must equal block_number and the
\* block must have a header; the raw diff, the deployed contracts and the
\* storage entries are written in turn.
append_state_diff(tables, block_number, diff) ==
    LET m == update_stream_marker(tables, "State", block_number) IN
    IF m.res # Ok THEN m
    ELSE IF ~(block_number < get_header_marker(tables))
    THEN [res |-> HeaderMissing(block_number), tables |-> m.tables]
    ELSE LET ins == TableInsert(m.tables.state_diffs, block_number, diff) IN
         IF ~ins.ok THEN [res |-> InnerDbError, tables |-> m.tables]
         ELSE LET d == write_deployed_contracts(
                           [m.tables EXCEPT !.state_diffs = ins.table],
                           block_number, diff.deployed_contracts, 1) IN
              IF d.res # Ok THEN d
              ELSE [res |-> Ok,
                    tables |-> write_storage_diffs(d.tables, block_number,
                                                   diff.storage_diffs, 1)]

\* ---- the state machine ----

EmptyStore ==
    [markers |-> EmptyTable, headers |-> EmptyTable,
     block_hash_to_number |-> EmptyTable,
     bodies |-> EmptyTable, transaction_hash_to_idx |-> EmptyTable,
     state_diffs |-> EmptyTable, deployed_at |-> EmptyTable,
     contract_storage |-> EmptyTable]


NoCall ==
    [op |-> "none", block_number |-> 0, block_hash |-> 0, res |-> Ok,
     value |-> None, arg |-> None]

NoneAppended == [k \in {"Header", "Body", "State"} |-> 0]

\* The headers a caller builds, as the tests do: a block hash, the number
\* either the block's or the default, the other fields default.
HeaderInputs(block_number) ==
    [block_hash : BlockHashes, parent_hash : {0}, number : {0, block_number}]

Init ==
    /\ db = EmptyStore
    /\ rw = <<>>
    /\ appended = NoneAppended
    /\ last = NoCall
    /\ ro = [r \in Readers |-> None]
    /\ waiting = FALSE
    /\ expanded = None

\* begin_rw_txn opening a second transaction beside the open one.
BeginRwTxn_beside ==
    /\ rw' = <<db>> \o rw
    /\ appended' = NoneAppended
    /\ last' = [NoCall EXCEPT !.op = "begin_rw_txn"]
    /\ waiting' = FALSE
    /\ UNCHANGED <<db, ro, expanded>>

\* begin_rw_txn: the environment has one writer.
BeginRwTxn ==
    /\ rw = <<>>
    /\ rw' = <<db>>
    /\ appended' = NoneAppended
    /\ last' = [NoCall EXCEPT !.op = "begin_rw_txn"]
    /\ waiting' = FALSE
    /\ UNCHANGED <<db, ro, expanded>>

\* append_header taking &mut self: after an error the caller still holds
\* the transaction, with the writes made before the error.
AppendHeader_keeps_txn(block_number, block_header) ==
    /\ rw # <<>>
    /\ LET r == append_header(rw[1], block_number, block_header) IN
       /\ rw' = <<r.tables>>
       /\ appended' = IF r.res = Ok
                      THEN [appended EXCEPT !["Header"] = @ + 1]
                      ELSE appended
       /\ last' = [op |-> "append_header", block_number |-> block_number,
                   block_hash |-> block_header.block_hash, res |-> r.res,
                   value |-> None, arg |-> None]
    /\ UNCHANGED <<db, ro, waiting, expanded>>

\* append_header checking and writing the committed tables, not those of
\* the transaction.
AppendHeader_on_committed(block_number, block_header) ==
    /\ rw # <<>>
    /\ LET r == append_header(db, block_number, block_header) IN
       /\ rw' = IF r.res = Ok THEN <<r.tables>> ELSE <<>>
       /\ appended' = IF r.res = Ok
                      THEN [appended EXCEPT !["Header"] = @ + 1]
                      ELSE NoneAppended
       /\ last' = [op |-> "append_header", block_number |-> block_number,
                   block_hash |-> block_header.block_hash, res |-> r.res,
                   value |-> None, arg |-> None]
    /\ UNCHANGED <<db, ro, waiting, expanded>>

\* txn.append_header(block_number, &block_header): self is returned on
\* success and dropped, hence aborted, on error.
AppendHeader(block_number, block_header) ==
    /\ rw # <<>>
    /\ LET r == append_header(rw[1], block_number, block_header) IN
       /\ rw' = IF r.res = Ok THEN <<r.tables>> ELSE <<>>
       /\ appended' = IF r.res = Ok
                      THEN [appended EXCEPT !["Header"] = @ + 1]
                      ELSE NoneAppended
       /\ last' = [op |-> "append_header", block_number |-> block_number,
                   block_hash |-> block_header.block_hash, res |-> r.res, value |-> None,
                   arg |-> None]
    /\ UNCHANGED <<db, ro, waiting, expanded>>

\* txn.append_body(block_number, &block_body)
AppendBody(block_number, block_body) ==
    /\ rw # <<>>
    /\ LET r == append_body(rw[1], block_number, block_body) IN
       /\ rw' = IF r.res = Ok THEN <<r.tables>> ELSE <<>>
       /\ appended' = IF r.res = Ok
                      THEN [appended EXCEPT !["Body"] = @ + 1]
                      ELSE NoneAppended
       /\ last' = [op |-> "append_body", block_number |-> block_number,
                   block_hash |-> 0, res |-> r.res, value |-> None,
                   arg |-> Some(block_body)]
    /\ UNCHANGED <<db, ro, waiting, expanded>>

\* txn.append_state_diff(block_number, &diff)
AppendStateDiff(block_number, diff) ==
    /\ rw # <<>>
    /\ LET r == append_state_diff(rw[1], block_number, diff) IN
       /\ rw' = IF r.res = Ok THEN <<r.tables>> ELSE <<>>
       /\ appended' = IF r.res = Ok
                      THEN [appended EXCEPT !["State"] = @ + 1]
                      ELSE NoneAppended
       /\ last' = [op |-> "append_state_diff", block_number |-> block_number,
                   block_hash |-> 0, res |-> r.res, value |-> None,
                   arg |-> Some(diff)]
    /\ UNCHANGED <<db, ro, waiting, expanded>>

\* txn.commit()
Commit ==
    /\ rw # <<>>
    /\ db' = rw[1]
    /\ rw' = <<>>
    /\ appended' = NoneAppended
    /\ last' = [NoCall EXCEPT !.op = "commit"]
    /\ UNCHANGED <<ro, waiting, expanded>>

\* The transaction goes out of scope without a commit.
DropTxn ==
    /\ rw # <<>>
    /\ rw' = <<>>
    /\ appended' = NoneAppended
    /\ last' = [NoCall EXCEPT !.op = "drop"]
    /\ UNCHANGED <<db, ro, waiting, expanded>>

\* BlockNumber::prev: None for block 0.
prev(block_number) ==
    IF block_number = 0 THEN None ELSE Some(block_number - 1)

\* starknet_blockNumber: in a read-only transaction on the committed
\* tables, the block before the header marker, or NoBlocks.
block_number_rpc(tables) ==
    LET latest == prev(get_header_marker(tables)) IN
    IF latest = None THEN [res |-> NoBlocks, value |-> None]
    ELSE [res |-> Ok, value |-> latest]

\* A call of starknet_blockNumber on the gateway.
BlockNumberRpc ==
    /\ LET r == block_number_rpc(db) IN
       last' = [NoCall EXCEPT !.op = "block_number", !.res = r.res,
                                  !.value = r.value]
    /\ UNCHANGED <<db, rw, appended, ro, waiting, expanded>>

\* The header stream alone, with every header a caller can build.
Next ==
    \/ BeginRwTxn
    \/ \E n \in BlockNumbers : \E h \in HeaderInputs(n) : AppendHeader(n, h)
    \/ Commit
    \/ DropTxn
    \/ BlockNumberRpc

Spec == Init /\ [][Next]_vars

\* The three streams together, with the inputs of the tests: a header has
\* the block's number as hash or the default hash; a body is empty or holds
\* the one transaction, of hash 0; a state diff is empty or deploys the one
\* contract. A transaction is its hash and its content, the class hash of
\* a declare transaction.
StreamHeaderInputs(block_number) ==
    [block_hash : {0, block_number}, parent_hash : {0}, number : {block_number}]

StreamBodyInputs == {<<>>, <<[transaction_hash |-> 0, class_hash |-> 0]>>}

StreamStateDiffInputs ==
    {[deployed_contracts |-> <<>>, storage_diffs |-> <<>>],
     [deployed_contracts |-> <<0>>,
      storage_diffs |-> <<[address |-> 0, key |-> 0, value |-> 1]>>]}

NextStreams ==
    \/ BeginRwTxn
    \/ \E n \in BlockNumbers : \E h \in StreamHeaderInputs(n) : AppendHeader(n, h)
    \/ \E n \in BlockNumbers : \E b \in StreamBodyInputs : AppendBody(n, b)
    \/ \E n \in BlockNumbers : \E d \in StreamStateDiffInputs : AppendStateDiff(n, d)
    \/ Commit
    \/ DropTxn
    \/ BlockNumberRpc

SpecStreams == Init /\ [][NextStreams]_vars

\* ---- the gateway (gateway/gateway.rs is not part of the sources; its
\* callers in gateway_test.rs are) ----

\* BlockId of the JSON-RPC API.
BlockIdHash(block_hash) == [tag |-> "Hash", block_hash |-> block_hash]
BlockIdNumber(block_number) == [tag |-> "Number", block_number |-> block_number]
BlockIdLatest == [tag |-> "Latest"]

\* One block past the appended ones is asked for as well, as the tests do.
BlockIds ==
    {BlockIdHash(h) : h \in BlockHashes}
        \cup {BlockIdNumber(n) : n \in 0..(MaxBlock + 1)}
        \cup {BlockIdLatest}

\* The number of the block that block_id names among the blocks below
\* marker: a hash through the block_hash_to_number table, a number when it
\* is below the marker, Latest as the block before the marker.
get_block_number(tables, block_id, marker) ==
    IF block_id.tag = "Hash"
    THEN LET n == get_block_number_by_hash(tables, block_id.block_hash) IN
         IF n = None THEN [res |-> InvalidBlockId, value |-> None]
         ELSE IF ~(n[1] < marker) THEN [res |-> InvalidBlockId, value |-> None]
         ELSE [res |-> Ok, value |-> n]
    ELSE IF block_id.tag = "Number"
    THEN IF block_id.block_number < marker
         THEN [res |-> Ok, value |-> Some(block_id.block_number)]
         ELSE [res |-> InvalidBlockId, value |-> None]
    ELSE LET latest == prev(marker) IN
         IF latest = None THEN [res |-> NoBlocks, value |-> None]
         ELSE [res |-> Ok, value |-> latest]

\* The header of a resolved block.
get_block_header_by_number(tables, block_number) ==
    LET header == get_block_header(tables, block_number) IN
    IF header = None THEN [res |-> InvalidBlockId, value |-> None]
    ELSE [res |-> Ok, value |-> header]

\* The transactions of a resolved block: none when the block has a header
\* and no body, as test_get_block_w_transaction_hashes expects.
get_block_txs_by_number(tables, block_number) ==
    LET body == TableGet(tables.bodies, block_number) IN
    IF body = None THEN <<>> ELSE body[1]

\* The hashes of a list of transactions.
transaction_hashes(transactions) ==
    [i \in 1..Len(transactions) |-> transactions[i].transaction_hash]

\* starknet_getBlockWithTxHashes
get_block_w_transaction_hashes(tables, block_id) ==
    LET n == get_block_number(tables, block_id, get_header_marker(tables)) IN
    IF n.res # Ok THEN n
    ELSE LET header == get_block_header_by_number(tables, n.value[1]) IN
         IF header.res # Ok THEN header
         ELSE [res |-> Ok,
               value |-> Some([header |-> header.value[1],
                               transactions |-> transaction_hashes(
                                   get_block_txs_by_number(tables, n.value[1]))])]

\* starknet_getBlockWithTxs
get_block_w_full_transactions(tables, block_id) ==
    LET n == get_block_number(tables, block_id, get_header_marker(tables)) IN
    IF n.res # Ok THEN n
    ELSE LET header == get_block_header_by_number(tables, n.value[1]) IN
         IF header.res # Ok THEN header
         ELSE [res |-> Ok,
               value |-> Some([header |-> header.value[1],
                               transactions |->
                                   get_block_txs_by_number(tables, n.value[1])])]

\* starknet_getTransactionByBlockIdAndIndex
get_transaction_by_block_id_and_index(tables, block_id, index) ==
    LET n == get_block_number(tables, block_id, get_header_marker(tables)) IN
    IF n.res # Ok THEN n
    ELSE LET transactions == get_block_txs_by_number(tables, n.value[1]) IN
         IF index < Len(transactions)
         THEN [res |-> Ok, value |-> Some(transactions[index + 1])]
         ELSE [res |-> InvalidTransactionIndex, value |-> None]

\* starknet_getTransactionByHash
get_transaction_by_hash(tables, transaction_hash) ==
    LET idx == TableGet(tables.transaction_hash_to_idx, transaction_hash) IN
    IF idx = None THEN [res |-> InvalidTransactionHash, value |-> None]
    ELSE LET transactions == get_block_txs_by_number(tables, idx[1][1]) IN
         IF idx[1][2] < Len(transactions)
         THEN [res |-> Ok, value |-> Some(transactions[idx[1][2] + 1])]
         ELSE [res |-> InvalidTransactionHash, value |-> None]

\* A call on the gateway: the handler runs in a read-only transaction on
\* the committed tables.
GatewayCall(op, arg, r) ==
    /\ last' = [NoCall EXCEPT !.op = op, !.arg = arg, !.res = r.res,
                               !.value = r.value]
    /\ UNCHANGED <<db, rw, appended, ro, waiting, expanded>>

GetBlockWithTxHashes(block_id) ==
    GatewayCall("get_block_w_transaction_hashes", Some(block_id),
                get_block_w_transaction_hashes(db, block_id))

GetBlockWithTxs(block_id) ==
    GatewayCall("get_block_w_full_transactions", Some(block_id),
                get_block_w_full_transactions(db, block_id))

GetTransactionByBlockIdAndIndex(block_id, index) ==
    GatewayCall("get_transaction_by_block_id_and_index",
                Some([block_id |-> block_id, index |-> index]),
                get_transaction_by_block_id_and_index(db, block_id, index))

GetTransactionByHash(transaction_hash) ==
    GatewayCall("get_transaction_by_hash", Some(transaction_hash),
                get_transaction_by_hash(db, transaction_hash))

\* Bodies of up to two transactions over two hashes, 0 the hash of
\* Transaction::default(); the content of a transaction is the number of
\* the block it is offered to.
TxHashes == {0, 1}

\* Block n is given the hash n + 1, and the last block the hash 0.
BlockHeaderInputs(block_number) ==
    [block_hash : {(block_number + 1) % (MaxHash + 1)}, parent_hash : {0},
     number : {block_number}]

BlockBodyInputs(block_number) ==
    LET Txs == [transaction_hash : TxHashes, class_hash : {block_number}] IN
    {<<>>} \cup {<<t>> : t \in Txs} \cup {<<t, u>> : t \in Txs, u \in Txs}

\* The headers and the bodies, and the block and transaction queries of
\* the gateway.
NextBlocks ==
    \/ BeginRwTxn
    \/ \E n \in BlockNumbers : \E h \in BlockHeaderInputs(n) : AppendHeader(n, h)
    \/ \E n \in BlockNumbers : \E b \in BlockBodyInputs(n) : AppendBody(n, b)
    \/ Commit
    \/ DropTxn
    \/ \E b \in BlockIds : GetBlockWithTxHashes(b)
    \/ \E b \in BlockIds : GetBlockWithTxs(b)
    \/ \E b \in BlockIds : \E i \in 0..1 : GetTransactionByBlockIdAndIndex(b, i)
    \/ \E h \in TxHashes : GetTransactionByHash(h)

SpecBlocks == Init /\ [][NextBlocks]_vars

\* ---- the state reader and starknet_getStorageAt (storage/state.rs and
\* gateway/gateway.rs are not part of the sources) ----

\* The order of the keys (address, key, block_number) of the storage
\* table: by contract, then by storage slot, then by block.
StorageKeyLeq(k1, k2) ==
    \/ k1[1] < k2[1]
    \/ k1[1] = k2[1] /\ k1[2] < k2[2]
    \/ k1[1] = k2[1] /\ k1[2] = k2[2] /\ k1[3] <= k2[3]

\* The cursor positioned at the greatest key of the table that is at most
\* key: None when every key is greater.
cursor_at_or_before(table, key) ==
    LET below == {k \in DOMAIN table : StorageKeyLeq(k, key)} IN
    IF below = {} THEN None
    ELSE Some(CHOOSE k \in below : \A j \in below : StorageKeyLeq(j, k))

\* get_storage_at returning the value under the cursor whatever its slot.
get_storage_at_any_slot(tables, block_number, address, key) ==
    LET c == cursor_at_or_before(tables.contract_storage,
                                 <<address, key, block_number>>) IN
    IF c = None THEN 0 ELSE tables.contract_storage[c[1]]

\* StateReader::get_storage_at: the value of the slot as of block_number,
\* the zero felt when the cursor stands on another slot or nowhere.
get_storage_at(tables, block_number, address, key) ==
    LET c == cursor_at_or_before(tables.contract_storage,
                                 <<address, key, block_number>>) IN
    IF c = None THEN 0
    ELSE IF c[1][1] = address /\ c[1][2] = key
    THEN tables.contract_storage[c[1]]
    ELSE 0

\* starknet_getStorageAt: the block id is resolved against the state
\* marker, the contract must be deployed by that block.
get_storage_at_rpc(tables, address, key, block_id) ==
    LET n == get_block_number(tables, block_id, get_state_marker(tables)) IN
    IF n.res # Ok THEN n
    ELSE LET deployed == TableGet(tables.deployed_at, address) IN
         IF deployed = None THEN [res |-> ContractNotFound, value |-> None]
         ELSE IF deployed[1] > n.value[1]
         THEN [res |-> ContractNotFound, value |-> None]
         ELSE [res |-> Ok,
               value |-> Some(get_storage_at(tables, n.value[1], address, key))]

GetStorageAt(address, key, block_id) ==
    GatewayCall("get_storage_at",
                Some([address |-> address, key |-> key, block_id |-> block_id]),
                get_storage_at_rpc(db, address, key, block_id))

\* Two contracts with two storage slots each.
Addresses == {0, 1}
StorageKeys == {0, 1}

\* The state diffs offered to block n: the empty one, the deployment of
\* contract 0 with a write to its slot 0, and a write to a slot of contract
\* 0 alone; contract 1 is never deployed. A write at block n stores n + 1,
\* so that no write stores zero and the writes of two blocks differ.
StateDiffInputs(block_number) ==
    LET entry(a, k) == [address |-> a, key |-> k, value |-> block_number + 1] IN
    {[deployed_contracts |-> <<>>, storage_diffs |-> <<>>],
     [deployed_contracts |-> <<0>>, storage_diffs |-> <<entry(0, 0)>>]}
        \cup {[deployed_contracts |-> <<>>, storage_diffs |-> <<entry(0, k)>>] :
                 k \in StorageKeys}

\* The headers and the state diffs, and the storage queries of the
\* gateway.
NextState ==
    \/ BeginRwTxn
    \/ \E n \in BlockNumbers : \E h \in BlockHeaderInputs(n) : AppendHeader(n, h)
    \/ \E n \in BlockNumbers : \E d \in StateDiffInputs(n) : AppendStateDiff(n, d)
    \/ Commit
    \/ DropTxn
    \/ \E a \in Addresses, k \in StorageKeys, b \in BlockIds : GetStorageAt(a, k, b)

SpecState == Init /\ [][NextState]_vars

\* ---- read-only transactions and the one writer (storage/db.rs and the
\* storage reader and writer are not part of the sources; main.rs hands the
\* clones of the reader and the writer out) ----

\* storage_reader.begin_ro_txn(): the transaction reads the tables as
\* committed when it began.
BeginRoTxn(r) ==
    /\ ro[r] = None
    /\ ro' = [ro EXCEPT ![r] = Some(db)]
    /\ last' = [NoCall EXCEPT !.op = "begin_ro_txn", !.arg = Some(r)]
    /\ UNCHANGED <<db, rw, appended, waiting, expanded>>

\* The read-only transaction goes out of scope.
DropRoTxn(r) ==
    /\ ro[r] # None
    /\ ro' = [ro EXCEPT ![r] = None]
    /\ last' = [NoCall EXCEPT !.op = "drop_ro_txn", !.arg = Some(r)]
    /\ UNCHANGED <<db, rw, appended, waiting, expanded>>

\* A read made through the read-only transaction of reader r.
RoRead(r, op, value) ==
    /\ last' = [NoCall EXCEPT !.op = op, !.arg = Some(r), !.value = value]
    /\ UNCHANGED <<db, rw, appended, ro, waiting, expanded>>

\* get_header_marker reading the committed tables, not the transaction's.
RoGetHeaderMarker_committed(r) ==
    /\ ro[r] # None
    /\ RoRead(r, "get_header_marker", Some(get_header_marker(db)))

\* txn.get_header_marker() on a read-only transaction
RoGetHeaderMarker(r) ==
    /\ ro[r] # None
    /\ RoRead(r, "get_header_marker", Some(get_header_marker(ro[r][1])))

\* txn.get_block_header(block_number) on a read-only transaction
RoGetBlockHeader(r, block_number) ==
    /\ ro[r] # None
    /\ LET header == get_block_header(ro[r][1], block_number) IN
       /\ last' = [NoCall EXCEPT !.op = "get_block_header", !.arg = Some(r),
                                  !.block_number = block_number,
                                  !.value = header]
       /\ UNCHANGED <<db, rw, appended, ro, waiting, expanded>>

\* txn.get_block_number_by_hash(&block_hash) on a read-only transaction
RoGetBlockNumberByHash(r, block_hash) ==
    /\ ro[r] # None
    /\ LET n == get_block_number_by_hash(ro[r][1], block_hash) IN
       /\ last' = [NoCall EXCEPT !.op = "get_block_number_by_hash",
                                  !.arg = Some(r), !.block_hash = block_hash,
                                  !.value = n]
       /\ UNCHANGED <<db, rw, appended, ro, waiting, expanded>>

\* begin_rw_txn called while a read-write transaction is open: the call
\* does not return.
BeginRwTxnBlocks ==
    /\ rw # <<>>
    /\ ~waiting
    /\ waiting' = TRUE
    /\ UNCHANGED <<db, rw, appended, last, ro, expanded>>

\* The header stream with its writer, a caller waiting for the writer, and
\* the readers.
NextScopes ==
    \/ BeginRwTxn
    \/ BeginRwTxnBlocks
    \/ \E n \in BlockNumbers : \E h \in StreamHeaderInputs(n) : AppendHeader(n, h)
    \/ Commit
    \/ DropTxn
    \/ \E r \in Readers : BeginRoTxn(r)
    \/ \E r \in Readers : DropRoTxn(r)
    \/ \E r \in Readers : RoGetHeaderMarker(r)
    \/ \E r \in Readers : \E n \in BlockNumbers : RoGetBlockHeader(r, n)
    \/ \E r \in Readers : \E h \in BlockHashes : RoGetBlockNumberByHash(r, h)

SpecScopes == Init /\ [][NextScopes]_vars

\* ---- the versioned_rpc macro (papyrus_proc_macros/src/lib.rs) ----

\* A string is the sequence of its characters, of two kinds: the
\* underscore and any other. Version ids and API method names have up to
\* MaxLen characters.
MaxLen == 3

Chars == {"v", "_"}

Strings == UNION {[1..k -> Chars] : k \in 1..MaxLen}

\* An attribute is its path, the kind of its syn::Meta and, for a
\* Meta::List, its arguments, each a key with or without a value.
Attr(path, meta, nested) == [path |-> path, meta |-> meta, nested |-> nested]

Arg(key, value) == [key |-> key, value |-> value]

\* format!("method(name = \"{}_{}\")", version.value(), method_name.value()):
\* the name in it.
format_method_name(version, method_name) ==
    version \o <<"_">> \o method_name

\* attr.parse_nested_meta with the closure of the macro, from argument i
\* on, nested being the arguments of new_attr so far. At the argument
\* name the value is parsed and new_attr.meta replaced by method(name =
\* "<version>_<name>"); any other argument is left unparsed, so that one
\* with a value ends the parsing with an error, which the macro discards.
RECURSIVE parse_nested_meta(_, _, _, _)
parse_nested_meta(version, args, i, nested) ==
    IF i > Len(args) THEN nested
    ELSE IF args[i].key = "name"
    THEN IF args[i].value = None THEN nested
         ELSE parse_nested_meta(
                  version, args, i + 1,
                  <<Arg("name", Some(format_method_name(version,
                                                        args[i].value[1])))>>)
    ELSE IF args[i].value # None THEN nested
    ELSE parse_nested_meta(version, args, i + 1, nested)

\* The attribute that the macro emits for an attribute of a method.
new_attr(version, attr) ==
    IF attr.path = "method" /\ attr.meta = "List"
    THEN [attr EXCEPT !.nested = parse_nested_meta(version, attr.nested, 1, @)]
    ELSE attr

\* The attributes of a method: those of Meta::NameValue are dropped, the
\* others mapped.
versioned_attrs(version, attrs) ==
    LET kept == SelectSeq(attrs, LAMBDA a : a.meta # "NameValue") IN
    [i \in 1..Len(kept) |-> new_attr(version, kept[i])]

\* versioned_methods: a TraitItem::Fn gets its attributes mapped, its
\* signature and default cloned; any other item is cloned.
versioned_methods(version, items) ==
    [i \in 1..Len(items) |->
        IF items[i].kind = "Fn"
        THEN [items[i] EXCEPT !.attrs = versioned_attrs(version, @)]
        ELSE items[i]]

\* versioned_rpc: the trait named by the trait's name followed by the
\* version, under the rpc attribute, with the versioned methods.
versioned_rpc(version, item_trait) ==
    [attrs |-> <<Attr("rpc", "List",
                      <<Arg("server", None), Arg("client", None),
                        Arg("namespace", Some("starknet"))>>)>>,
     vis |-> item_trait.vis,
     ident |-> item_trait.ident \o version,
     items |-> versioned_methods(version, item_trait.items)]

\* The macro is applied.
VersionedRpc(version, item_trait) ==
    /\ expanded' = Some([version |-> version, item_trait |-> item_trait,
                         generated |-> versioned_rpc(version, item_trait)])
    /\ UNCHANGED <<db, rw, appended, last, ro, waiting>>

\* The methods offered for an API name: with the method attribute alone,
\* as in the example of the macro, and under a doc comment; for a name of
\* one character also with a flag after the name, and with a valued
\* argument before the name.
MethodInputs(method_name) ==
    LET method(args) == Attr("method", "List", args)
        name == Arg("name", Some(method_name))
        fn(attrs) == [kind |-> "Fn", attrs |-> attrs,
                      sig |-> "fn block_number(&self) -> Result<BlockNumber, Error>"]
    IN {fn(<<method(<<name>>)>>),
        fn(<<Attr("doc", "NameValue", <<>>), method(<<name>>)>>)}
       \cup IF Len(method_name) = 1
            THEN {fn(<<method(<<name, Arg("blocking", None)>>)>>),
                  fn(<<method(<<Arg("aliases", Some("alias")), name>>)>>)}
            ELSE {}

\* The traits offered to the macro: JsonRpc with one method, or with an
\* associated constant before it.
TraitInputs ==
    LET const == [kind |-> "Const", attrs |-> <<>>, sig |-> "const VERSION: u8"]
        jsonrpc(items) == [ident |-> <<"J">>, vis |-> "pub", items |-> items]
    IN UNION {{jsonrpc(<<f>>) : f \in MethodInputs(m)}
                  \cup {jsonrpc(<<const, f>>) :
                           f \in {g \in MethodInputs(m) :
                                     Len(m) = 1 /\ Len(g.attrs) = 2}} :
              m \in Strings}

NextMacro ==
    \E version \in Strings : \E item_trait \in TraitInputs :
        VersionedRpc(version, item_trait)

SpecMacro == Init /\ [][NextMacro]_vars

\* ---- properties ----

\* The entry of the Markers table for kind, 0 when there is none.
MarkerOf(tables, kind) ==
    IF kind \in DOMAIN tables.markers THEN tables.markers[kind] ELSE 0

\* C1: with header marker m in the transaction, append_header(N, H) with
\* N # m fails with MarkerMismatch{expected: m, found: N} for every H, and
\* on an empty store append_header(1, H) fails with
\* MarkerMismatch{expected: 0, found: 1}.
C1_MarkerMismatch ==
    [][\A n \in BlockNumbers : \A h \in HeaderInputs(n) :
          AppendHeader(n, h) =>
             /\ n # MarkerOf(rw[1], "Header")
                   => last'.res = MarkerMismatch(MarkerOf(rw[1], "Header"), n)
             /\ (n = 1 /\ rw[1] = EmptyStore)
                   => last'.res = [kind |-> "MarkerMismatch", expected |-> 0,
                                   found |-> 1]]_vars

\* append_header(1, ..) was refused on the empty store.
C1_Witness ==
    /\ last.op = "append_header"
    /\ last.res = MarkerMismatch(0, 1)
    /\ db = EmptyStore

\* C3: the block numbers with an entry in the committed Headers table are
\* exactly 0 .. header_marker - 1, and get_block_header(N) returns a header
\* iff N < get_header_marker().
C3_HeadersDense ==
    /\ DOMAIN db.headers = 0..(MarkerOf(db, "Header") - 1)
    /\ \A n \in 0..(MaxBlock + 1) :
          (get_block_header(db, n) # None) <=> (n < get_header_marker(db))

\* Two headers are committed.
C3_Witness ==
    /\ get_header_marker(db) = 2
    /\ get_block_header(db, 1) # None
    /\ last.op = "commit"

\* C4: the committed Headers table and block-hash index are in bijection:
\* every stored header N -> H has get_block_number_by_hash(H.block_hash) = N,
\* every indexed hash maps to a number below the header marker whose header
\* has that hash, and no two stored headers share a block hash.
C4_HashIndexBijection ==
    /\ \A n \in DOMAIN db.headers :
          get_block_number_by_hash(db, db.headers[n].block_hash) = Some(n)
    /\ \A h \in DOMAIN db.block_hash_to_number :
          LET n == db.block_hash_to_number[h] IN
          /\ n < MarkerOf(db, "Header")
          /\ get_block_header(db, n) # None
          /\ db.headers[n].block_hash = h
    /\ \A n1, n2 \in DOMAIN db.headers :
          db.headers[n1].block_hash = db.headers[n2].block_hash => n1 = n2

\* Two headers with their two hashes are committed.
C4_Witness ==
    /\ Cardinality(DOMAIN db.headers) = 2
    /\ Cardinality(DOMAIN db.block_hash_to_number) = 2

\* C5: append_header(N, H) with N the header marker and H.block_hash in
\* the block-hash index fails with BlockHashAlreadyExists{block_hash:
\* H.block_hash, block_number: N}, N being the number of the refused append.
C5_BlockHashAlreadyExists ==
    [][\A n \in BlockNumbers : \A h \in HeaderInputs(n) :
          (/\ AppendHeader(n, h)
           /\ n = MarkerOf(rw[1], "Header")
           /\ h.block_hash \in DOMAIN rw[1].block_hash_to_number)
             => last'.res = [kind |-> "BlockHashAlreadyExists",
                             block_hash |-> h.block_hash, block_number |-> n]]_vars

\* A header for block 1 was refused for the hash that block 0 owns.
C5_Witness ==
    /\ last.op = "append_header"
    /\ last.res.kind = "BlockHashAlreadyExists"
    /\ last.block_number = 1
    /\ last.res.block_number = 1

\* C6: an append_header that returns an error consumes the transaction, so
\* that none is left to commit (Commit needs rw # <<>>), and leaves the
\* committed tables as they were, the earlier appends of the same
\* transaction included.
C6_FailedAppendAborts ==
    [][\A n \in BlockNumbers : \A h \in HeaderInputs(n) :
          (AppendHeader(n, h) /\ last'.res # Ok)
             => /\ rw' = <<>>
                /\ db' = db]_vars

\* After a first header was appended in a transaction on the empty store,
\* a second one was refused for its hash with the marker and the header
\* already written, and the committed store is still empty.
C6_Witness ==
    /\ last.op = "append_header"
    /\ last.res.kind = "BlockHashAlreadyExists"
    /\ last.block_number = 1
    /\ rw = <<>>
    /\ db = EmptyStore

\* C7 as stated: once append_header(N, D) is committed, in a new transaction
\* the same append is refused with MarkerMismatch and the append re-issued
\* with the current marker value N + 1 succeeds.
C7_Original ==
    [][\A n \in BlockNumbers : \A h \in HeaderInputs(n) :
          (/\ AppendHeader(n, h)
           /\ rw[1] = db
           /\ MarkerOf(db, "Header") > 0)
             => LET N == MarkerOf(db, "Header") - 1
                    D == db.headers[N] IN
                /\ (n = N /\ h = D) => last'.res = MarkerMismatch(N + 1, N)
                /\ (n = N + 1 /\ h = D) => last'.res = Ok]_vars

\* C7, amended: once append_header(N, D) is committed, in a new transaction
\* the same append is refused with MarkerMismatch; an append at the current
\* marker value N + 1 succeeds when its block hash is not yet indexed, and
\* with the header D again it fails with BlockHashAlreadyExists.
C7_IdempotentRestart ==
    [][\A n \in BlockNumbers : \A h \in HeaderInputs(n) :
          (/\ AppendHeader(n, h)
           /\ rw[1] = db
           /\ MarkerOf(db, "Header") > 0)
             => LET N == MarkerOf(db, "Header") - 1
                    D == db.headers[N] IN
                /\ (n = N /\ h = D) => last'.res = MarkerMismatch(N + 1, N)
                /\ (n = N + 1 /\ h.block_hash \notin DOMAIN db.block_hash_to_number)
                      => (last'.res = Ok /\ rw' # <<>>)
                /\ (n = N + 1 /\ h.block_hash = D.block_hash)
                      => last'.res = BlockHashAlreadyExists(D.block_hash, N + 1)]_vars

\* With block 0 committed, its append was re-issued and refused.
C7_Witness ==
    /\ MarkerOf(db, "Header") = 1
    /\ last.op = "append_header"
    /\ last.block_number = 0
    /\ last.block_hash = db.headers[0].block_hash
    /\ last.res = MarkerMismatch(1, 0)

\* C10: on an empty store every marker reads 0 and starknet_blockNumber
\* fails with NoBlocks; with a header marker above 0 it returns
\* header_marker - 1.
C10_BlockNumber ==
    /\ db.markers = EmptyTable
          => /\ get_header_marker(db) = 0
             /\ get_body_marker(db) = 0
             /\ get_state_marker(db) = 0
    /\ last.op = "block_number"
          => IF "Header" \in DOMAIN db.markers
             THEN /\ last.res = Ok
                  /\ last.value = Some(db.markers["Header"] - 1)
             ELSE last.res = NoBlocks /\ last.value = None

\* starknet_blockNumber returned 1 with two headers committed.
C10_Witness ==
    /\ last.op = "block_number"
    /\ last.res = Ok
    /\ last.value = Some(1)
    /\ Cardinality(DOMAIN db.headers) = 2

\* C2: the committed value of each marker never decreases; a commit raises
\* marker X by exactly the number of append_X that succeeded in the
\* committed transaction, each of which raised the marker in the
\* transaction from N to N + 1 and no other marker; no other operation
\* changes a committed marker.
C2_MarkersMonotone ==
    [][/\ \A k \in MarkerKinds :
             /\ MarkerOf(db', k) >= MarkerOf(db, k)
             /\ IF last'.op = "commit"
                THEN MarkerOf(db', k) = MarkerOf(db, k)
                        + (IF k \in DOMAIN appended THEN appended[k] ELSE 0)
                ELSE MarkerOf(db', k) = MarkerOf(db, k)
       /\ \A x \in {<<"append_header", "Header">>, <<"append_body", "Body">>,
                    <<"append_state_diff", "State">>} :
             (last'.op = x[1] /\ last'.res = Ok)
                => /\ MarkerOf(rw[1], x[2]) = last'.block_number
                   /\ MarkerOf(rw'[1], x[2]) = last'.block_number + 1
                   /\ \A k \in MarkerKinds \ {x[2]} :
                         MarkerOf(rw'[1], k) = MarkerOf(rw[1], k)]_vars

\* A commit has just installed appends of all three streams.
C2_Witness ==
    /\ last.op = "commit"
    /\ MarkerOf(db, "Header") = 2
    /\ MarkerOf(db, "Body") = 1
    /\ MarkerOf(db, "State") = 2

NamedBlock(tables, block_id, kind) ==
    IF block_id.tag = "Number"
    THEN IF block_id.block_number < MarkerOf(tables, kind)
         THEN Some(block_id.block_number) ELSE None
    ELSE IF block_id.tag = "Hash"
    THEN IF /\ block_id.block_hash \in DOMAIN tables.block_hash_to_number
            /\ tables.block_hash_to_number[block_id.block_hash] < MarkerOf(tables, kind)
         THEN Some(tables.block_hash_to_number[block_id.block_hash]) ELSE None
    ELSE IF MarkerOf(tables, kind) > 0
         THEN Some(MarkerOf(tables, kind) - 1) ELSE None

\* The transactions stored for a block, none when it has no body.
StoredTransactions(tables, block_number) ==
    IF block_number \in DOMAIN tables.bodies THEN tables.bodies[block_number]
    ELSE <<>>

\* C11: getBlockWithTxHashes, getBlockWithTxs and
\* getTransactionByBlockIdAndIndex resolve their block id against the
\* header marker: Number(n) names block n iff n < header_marker, Hash(h)
\* names the block that block_hash_to_number stores for h, Latest names
\* header_marker - 1, and an id that names no block fails with
\* InvalidBlockId (Latest on an empty store with NoBlocks); the answer is
\* made of the header and the body stored under the named number, and an
\* id gets the answer that the number of the block it names gets, so ids
\* that name the same block get the same answer.
C11_BlockIdResolution ==
    /\ last.op \in {"get_block_w_transaction_hashes", "get_block_w_full_transactions"}
        => LET block_id == last.arg[1]
               named == NamedBlock(db, block_id, "Header") IN
           IF named = None
           THEN /\ last.res = IF block_id.tag = "Latest" THEN NoBlocks
                               ELSE InvalidBlockId
                /\ last.value = None
           ELSE /\ last.res = Ok
                /\ last.value[1].header = db.headers[named[1]]
                /\ Len(last.value[1].transactions)
                      = Len(StoredTransactions(db, named[1]))
    /\ last.op = "get_transaction_by_block_id_and_index"
        => LET block_id == last.arg[1].block_id
               named == NamedBlock(db, block_id, "Header") IN
           IF named = None
           THEN last.res = IF block_id.tag = "Latest" THEN NoBlocks
                            ELSE InvalidBlockId
           ELSE /\ last.res \in {Ok, InvalidTransactionIndex}
                /\ last.res = Ok =>
                      last.value[1] = StoredTransactions(db, named[1])[last.arg[1].index + 1]
    /\ \A b \in BlockIds :
          NamedBlock(db, b, "Header") # None
            => LET n == BlockIdNumber(NamedBlock(db, b, "Header")[1]) IN
               /\ get_block_w_transaction_hashes(db, b)
                    = get_block_w_transaction_hashes(db, n)
               /\ get_block_w_full_transactions(db, b)
                    = get_block_w_full_transactions(db, n)
               /\ \A i \in 0..2 :
                    get_transaction_by_block_id_and_index(db, b, i)
                        = get_transaction_by_block_id_and_index(db, n, i)

\* Block 1, holding a transaction, is returned for its hash while two
\* blocks have a header.
C11_Witness ==
    /\ last.op = "get_block_w_transaction_hashes"
    /\ last.arg = Some(BlockIdHash(2))
    /\ last.res = Ok
    /\ last.value[1].header.number = 1
    /\ Len(last.value[1].transactions) = 1
    /\ MarkerOf(db, "Header") = 2

\* The blocks up to block_number whose stored state diff writes the slot.
SlotWriters(tables, address, key, block_number) ==
    {n \in DOMAIN tables.state_diffs :
        /\ n <= block_number
        /\ \E i \in 1..Len(tables.state_diffs[n].storage_diffs) :
              /\ tables.state_diffs[n].storage_diffs[i].address = address
              /\ tables.state_diffs[n].storage_diffs[i].key = key}

\* The value that the last of these blocks wrote, zero when there is none.
WrittenValue(tables, address, key, block_number) ==
    LET writers == SlotWriters(tables, address, key, block_number) IN
    IF writers = {} THEN 0
    ELSE LET n == CHOOSE w \in writers : \A x \in writers : x <= w
             entries == tables.state_diffs[n].storage_diffs
             i == CHOOSE j \in 1..Len(entries) :
                      entries[j].address = address /\ entries[j].key = key
         IN entries[i].value

\* C12: for every (address, key) and every block B below the state marker
\* the state reader returns the value written by the greatest block <= B
\* whose state diff wrote the slot, and zero when no such block exists;
\* getStorageAt answers with that value for the block it resolves.
C12_PointInTime ==
    /\ \A a \in Addresses, k \in StorageKeys, B \in BlockNumbers :
          B < MarkerOf(db, "State")
            => get_storage_at(db, B, a, k) = WrittenValue(db, a, k, B)
    /\ (last.op = "get_storage_at" /\ last.res = Ok)
          => last.value
               = Some(WrittenValue(db, last.arg[1].address, last.arg[1].key,
                        NamedBlock(db, last.arg[1].block_id, "State")[1]))

\* Slot (0, 0) is written at blocks 0 and 2, slot (0, 1) at block 1, and
\* the slot read as of block 1 has the value of block 0.
C12_Witness ==
    /\ last.op = "get_storage_at"
    /\ last.arg = Some([address |-> 0, key |-> 0, block_id |-> BlockIdNumber(1)])
    /\ last.res = Ok
    /\ last.value = Some(1)
    /\ DOMAIN db.contract_storage = {<<0, 0, 0>>, <<0, 1, 1>>, <<0, 0, 2>>}

\* C13: getStorageAt resolves its block id against the state marker:
\* Number(n) with n >= state_marker, a hash that block_hash_to_number does
\* not hold, and a hash of a block numbered >= state_marker fail with
\* InvalidBlockId, Latest with state_marker = 0 fails with NoBlocks; for a
\* resolved block N the call fails with ContractNotFound when the address
\* has no deployed_at entry or was deployed at a block > N, and succeeds
\* otherwise.
C13_GetStorageAtErrors ==
    last.op = "get_storage_at"
      => LET block_id == last.arg[1].block_id
             address == last.arg[1].address
             state_marker == MarkerOf(db, "State")
             unresolved ==
                 \/ block_id.tag = "Number" /\ block_id.block_number >= state_marker
                 \/ /\ block_id.tag = "Hash"
                    /\ block_id.block_hash \notin DOMAIN db.block_hash_to_number
                 \/ /\ block_id.tag = "Hash"
                    /\ block_id.block_hash \in DOMAIN db.block_hash_to_number
                    /\ db.block_hash_to_number[block_id.block_hash] >= state_marker
             N == IF block_id.tag = "Number" THEN block_id.block_number
                  ELSE IF block_id.tag = "Hash"
                  THEN db.block_hash_to_number[block_id.block_hash]
                  ELSE state_marker - 1
         IN IF unresolved THEN last.res = InvalidBlockId
            ELSE IF block_id.tag = "Latest" /\ state_marker = 0
            THEN last.res = NoBlocks
            ELSE IF \/ address \notin DOMAIN db.deployed_at
                    \/ db.deployed_at[address] > N
            THEN last.res = ContractNotFound
            ELSE last.res = Ok

\* Contract 0 is deployed at block 1 and asked for at block 0, by the hash
\* of block 0, with the state diffs of both blocks committed.
C13_Witness ==
    /\ last.op = "get_storage_at"
    /\ last.arg[1].address = 0
    /\ last.arg[1].block_id = BlockIdHash(1)
    /\ last.res = ContractNotFound
    /\ MarkerOf(db, "State") = 2
    /\ 0 \in DOMAIN db.deployed_at
    /\ db.deployed_at[0] = 1

\* The blocks below the state marker whose stored state diff deploys the
\* address.
Deployers(tables, address) ==
    {n \in DOMAIN tables.state_diffs :
        /\ n < MarkerOf(tables, "State")
        /\ \E i \in 1..Len(tables.state_diffs[n].deployed_contracts) :
              tables.state_diffs[n].deployed_contracts[i] = address}

\* C14: an address has a deployed_at entry iff a state diff at a block
\* below the state marker deployed it; the entry is the block of its first
\* deployment and never changes; append_state_diff of a diff that deploys
\* an address with an entry fails, with ContractAlreadyExists when the
\* block is the one the state marker and the headers allow.
C14_DeployedAt ==
    /\ [](\A a \in Addresses :
            /\ a \in DOMAIN db.deployed_at <=> Deployers(db, a) # {}
            /\ a \in DOMAIN db.deployed_at
                 => /\ db.deployed_at[a] \in Deployers(db, a)
                    /\ \A n \in Deployers(db, a) : db.deployed_at[a] <= n)
    /\ [][/\ \A a \in DOMAIN db.deployed_at :
                /\ a \in DOMAIN db'.deployed_at
                /\ db'.deployed_at[a] = db.deployed_at[a]
           /\ (/\ last'.op = "append_state_diff"
               /\ rw # <<>>
               /\ \E i \in 1..Len(last'.arg[1].deployed_contracts) :
                     last'.arg[1].deployed_contracts[i] \in DOMAIN rw[1].deployed_at)
                => /\ last'.res # Ok
                   /\ rw' = <<>>
                   /\ (/\ last'.block_number = MarkerOf(rw[1], "State")
                       /\ last'.block_number < MarkerOf(rw[1], "Header"))
                        => last'.res = ContractAlreadyExists(
                               last'.arg[1].deployed_contracts[1])]_vars

\* Contract 0, deployed at block 0 and committed, is deployed again at
\* block 1: the append fails and the entry stays at block 0.
C14_Witness ==
    /\ last.op = "append_state_diff"
    /\ last.block_number = 1
    /\ last.res = ContractAlreadyExists(0)
    /\ 0 \in DOMAIN db.deployed_at
    /\ db.deployed_at[0] = 0
    /\ MarkerOf(db, "State") = 1

\* C15: every hash of transaction_hash_to_idx maps to (N, i) with N below
\* the body marker and the i-th transaction of body N having that hash;
\* append_body of a body with a transaction whose hash is indexed, by an
\* earlier block or by an earlier transaction of the same body, fails,
\* with TransactionHashAlreadyExists when the block is the one the body
\* marker allows.
C15_TxHashIndex ==
    /\ [](\A h \in DOMAIN db.transaction_hash_to_idx :
            LET N == db.transaction_hash_to_idx[h][1]
                i == db.transaction_hash_to_idx[h][2] IN
            /\ N < MarkerOf(db, "Body")
            /\ N \in DOMAIN db.bodies
            /\ i < Len(db.bodies[N])
            /\ db.bodies[N][i + 1].transaction_hash = h)
    /\ [][(/\ last'.op = "append_body"
           /\ rw # <<>>
           /\ LET body == last'.arg[1] IN
              \E i \in 1..Len(body) :
                 \/ body[i].transaction_hash \in DOMAIN rw[1].transaction_hash_to_idx
                 \/ \E j \in 1..(i - 1) :
                       body[j].transaction_hash = body[i].transaction_hash)
            => /\ last'.res # Ok
               /\ rw' = <<>>
               /\ last'.block_number = MarkerOf(rw[1], "Body")
                    => last'.res.kind = "TransactionHashAlreadyExists"]_vars

\* A body whose two transactions have the hash 0 is refused for the second
\* of them, no block having indexed that hash.
C15_Witness ==
    /\ last.op = "append_body"
    /\ last.res = TransactionHashAlreadyExists(0)
    /\ Len(last.arg[1]) = 2
    /\ last.arg[1][1].transaction_hash = 0
    /\ last.arg[1][2].transaction_hash = 0
    /\ 0 \notin DOMAIN db.transaction_hash_to_idx
    /\ 1 \in DOMAIN db.transaction_hash_to_idx

\* C16: getTransactionByHash(h) returns the stored transaction of hash h,
\* the one at the place that transaction_hash_to_idx gives, and fails with
\* InvalidTransactionHash when h is not indexed;
\* getTransactionByBlockIdAndIndex(block_id, i) returns the i-th
\* transaction of the body of the resolved block when i is below the
\* length of that body and fails with InvalidTransactionIndex otherwise.
C16_TransactionLookups ==
    /\ last.op = "get_transaction_by_hash"
        => LET h == last.arg[1] IN
           IF h \in DOMAIN db.transaction_hash_to_idx
           THEN LET idx == db.transaction_hash_to_idx[h] IN
                /\ last.res = Ok
                /\ last.value = Some(db.bodies[idx[1]][idx[2] + 1])
                /\ last.value[1].transaction_hash = h
           ELSE /\ last.res = InvalidTransactionHash
                /\ last.value = None
    /\ (/\ last.op = "get_transaction_by_block_id_and_index"
        /\ NamedBlock(db, last.arg[1].block_id, "Header") # None)
        => LET N == NamedBlock(db, last.arg[1].block_id, "Header")[1]
               i == last.arg[1].index IN
           IF i < Len(StoredTransactions(db, N))
           THEN /\ last.res = Ok
                /\ last.value = Some(db.bodies[N][i + 1])
           ELSE /\ last.res = InvalidTransactionIndex
                /\ last.value = None

\* The transaction of hash 1, second of the body of block 1, is returned
\* for its hash.
C16_Witness ==
    /\ last.op = "get_transaction_by_hash"
    /\ last.arg = Some(1)
    /\ last.res = Ok
    /\ last.value = Some([transaction_hash |-> 1, class_hash |-> 1])
    /\ db.transaction_hash_to_idx[1] = <<1, 1>>

\* What a read of the header stream returns on given tables, read off the
\* tables.
HeaderRead(tables, call) ==
    IF call.op = "get_header_marker" THEN Some(MarkerOf(tables, "Header"))
    ELSE IF call.op = "get_block_header"
    THEN IF call.block_number \in DOMAIN tables.headers
         THEN Some(tables.headers[call.block_number]) ELSE None
    ELSE IF call.block_hash \in DOMAIN tables.block_hash_to_number
         THEN Some(tables.block_hash_to_number[call.block_hash]) ELSE None

RoReadOps == {"get_header_marker", "get_block_header", "get_block_number_by_hash"}

\* C17: a read-only transaction reads, for as long as it is open, the
\* tables as committed when it began: a commit made while it is open
\* changes nothing of what it reads, and a transaction begun after a
\* commit reads all of what was committed.
C17_SnapshotIsolation ==
    [][/\ \A r \in Readers :
            /\ (ro[r] # None /\ ro'[r] # None) => ro'[r] = ro[r]
            /\ (ro[r] = None /\ ro'[r] # None) => ro'[r] = Some(db)
       /\ last'.op = "commit" => db' = rw[1]
       /\ last'.op \in RoReadOps
            => last'.value = HeaderRead(ro[last'.arg[1]][1], last')]_vars

\* Reader 1 began with no header committed, block 0 was committed since,
\* reader 2 began after that: reader 1 reads the marker 0.
C17_Witness ==
    /\ ro[1] # None
    /\ ro[2] # None
    /\ MarkerOf(ro[1][1], "Header") = 0
    /\ MarkerOf(ro[2][1], "Header") = 1
    /\ MarkerOf(db, "Header") = 1
    /\ last.op = "get_header_marker"
    /\ last.arg = Some(1)
    /\ last.value = Some(0)

\* C18: at most one read-write transaction is open at a time; a
\* begin_rw_txn called while one is open returns only once that one has
\* been committed or dropped, an append that fails dropping it; the
\* readers can begin and read whatever the writer does, and the writer can
\* begin and commit whatever the readers do.
C18_SingleWriter ==
    /\ [](/\ Len(rw) <= 1
          /\ \A r \in Readers :
                /\ (ro[r] = None) => ENABLED BeginRoTxn(r)
                /\ (ro[r] # None) => ENABLED RoGetHeaderMarker(r)
          /\ (rw = <<>>) => ENABLED BeginRwTxn
          /\ (rw # <<>>) => ENABLED Commit)
    /\ [][/\ (waiting /\ ~waiting') => (rw = <<>> /\ rw' = <<db>>)
          /\ (rw # <<>> /\ rw' # <<>>) => last'.op # "commit"
          /\ (waiting /\ rw # <<>>) => waiting']_vars

\* A second begin_rw_txn waits for the transaction that appended block 0,
\* and a reader begins meanwhile.
C18_Witness ==
    /\ waiting
    /\ rw # <<>>
    /\ appended["Header"] = 1
    /\ last.op = "begin_ro_txn"
    /\ ro[1] # None

\* The tables hold whole appends of headers only: a header for exactly
\* the blocks below the marker, each with its index entry, and no index
\* entry without its header.
WholeAppends(tables) ==
    /\ \A n \in 0..(MaxBlock + 1) :
          n \in DOMAIN tables.headers <=> n < MarkerOf(tables, "Header")
    /\ \A n \in DOMAIN tables.headers :
          /\ tables.headers[n].block_hash \in DOMAIN tables.block_hash_to_number
          /\ tables.block_hash_to_number[tables.headers[n].block_hash] = n
    /\ \A h \in DOMAIN tables.block_hash_to_number :
          /\ tables.block_hash_to_number[h] \in DOMAIN tables.headers
          /\ tables.headers[tables.block_hash_to_number[h]].block_hash = h

\* C19: no read-only transaction reads a part of an append (a header
\* without its index entry, an index entry without its header, either
\* without the marker advanced), an append that failed midway included:
\* it reads the tables committed when it began, never the writes of the
\* open read-write transaction; an append and the drop of a read-write
\* transaction change neither the committed tables nor what a reader
\* reads.
C19_AtomicAppends ==
    /\ [](/\ WholeAppends(db)
          /\ \A r \in Readers : ro[r] # None => WholeAppends(ro[r][1]))
    /\ [][/\ \A r \in Readers :
                (ro[r] = None /\ ro'[r] # None) => ro'[r] = Some(db)
          /\ last'.op \in {"drop", "append_header"} => db' = db /\ ro' = ro]_vars

\* A reader that began with block 0 committed reads the marker 1 while the
\* writer, having appended block 1, fails on block 2 and is dropped.
C19_Witness ==
    /\ last.op = "append_header"
    /\ last.block_number = 2
    /\ last.res = BlockHashAlreadyExists(0, 2)
    /\ rw = <<>>
    /\ ro[1] # None
    /\ MarkerOf(ro[1][1], "Header") = 1
    /\ MarkerOf(db, "Header") = 1

\* C20: an append made in a read-write transaction is checked against the
\* appends that the transaction has made and not committed. With N + 1
\* the committed header marker plus the headers appended in the
\* transaction, at least one: append_header(N + 1, H') passes the marker
\* check and succeeds when the hash of H' is not indexed, and
\* append_header(N, ..) fails with MarkerMismatch{expected: N + 1, found:
\* N}; append_state_diff(N, ..) at the state marker, N being a block whose
\* header only the transaction holds, passes the header check, and
\* succeeds when it deploys no deployed contract; append_body(N, ..) at
\* the body marker succeeds when it holds no indexed transaction.
C20_ReadYourWrites ==
    [][(rw # <<>> /\ appended["Header"] > 0)
        => LET header_marker == MarkerOf(db, "Header") + appended["Header"]
               N == last'.block_number
               in_txn_only == MarkerOf(db, "Header") <= N /\ N < header_marker
           IN
           /\ (last'.op = "append_header" /\ N = header_marker)
                => /\ last'.res.kind # "MarkerMismatch"
                   /\ last'.block_hash \notin DOMAIN rw[1].block_hash_to_number
                        => (last'.res = Ok /\ rw' # <<>>)
           /\ (last'.op = "append_header" /\ N = header_marker - 1)
                => /\ last'.res = MarkerMismatch(header_marker, N)
                   /\ rw' = <<>>
           /\ (/\ last'.op = "append_state_diff"
               /\ in_txn_only
               /\ N = MarkerOf(db, "State") + appended["State"])
                => /\ last'.res.kind \notin {"MarkerMismatch", "HeaderMissing"}
                   /\ (\A i \in 1..Len(last'.arg[1].deployed_contracts) :
                          last'.arg[1].deployed_contracts[i]
                              \notin DOMAIN rw[1].deployed_at)
                        => (last'.res = Ok /\ rw' # <<>>)
           /\ (/\ last'.op = "append_body"
               /\ in_txn_only
               /\ N = MarkerOf(db, "Body") + appended["Body"])
                => /\ last'.res.kind # "MarkerMismatch"
                   /\ (\A i \in 1..Len(last'.arg[1]) :
                          last'.arg[1][i].transaction_hash
                              \notin DOMAIN rw[1].transaction_hash_to_idx)
                        => (last'.res = Ok /\ rw' # <<>>)]_vars

\* With no header committed, a transaction has appended the headers of
\* blocks 0 and 1 and then the state diff of block 0.
C20_Witness ==
    /\ rw # <<>>
    /\ MarkerOf(db, "Header") = 0
    /\ appended["Header"] = 2
    /\ appended["State"] = 1
    /\ last.op = "append_state_diff"
    /\ last.block_number = 0
    /\ last.res = Ok

\* C21: for a block N that has a header and no body yet (body marker <= N
\* < header marker), getBlockWithTxHashes and getBlockWithTxs asked for N
\* by hash, by number or by Latest succeed and return the header of N
\* with no transactions.
C21_HeaderOnlyBlock ==
    last.op \in {"get_block_w_transaction_hashes", "get_block_w_full_transactions"}
      => LET block_id == last.arg[1]
             N == IF block_id.tag = "Number" THEN block_id.block_number
                  ELSE IF block_id.tag = "Latest"
                  THEN MarkerOf(db, "Header") - 1
                  ELSE IF block_id.block_hash \in DOMAIN db.block_hash_to_number
                  THEN db.block_hash_to_number[block_id.block_hash]
                  ELSE -1
         IN (MarkerOf(db, "Body") <= N /\ 0 <= N /\ N < MarkerOf(db, "Header"))
              => /\ last.res = Ok
                 /\ last.value = Some([header |-> db.headers[N],
                                        transactions |-> <<>>])

\* Block 0 has a body of one transaction, block 1 a header alone, and
\* block 1 is returned for Latest with no transactions.
C21_Witness ==
    /\ last.op = "get_block_w_full_transactions"
    /\ last.arg = Some(BlockIdLatest)
    /\ last.res = Ok
    /\ last.value[1].header.number = 1
    /\ last.value[1].transactions = <<>>
    /\ MarkerOf(db, "Header") = 2
    /\ MarkerOf(db, "Body") = 1
    /\ Len(db.bodies[0]) = 1

\* C22: append_header checks the marker before it writes: with N not the
\* header marker the error is MarkerMismatch, whether or not the hash of H
\* is indexed, and nothing has been written; BlockHashAlreadyExists is
\* returned only with N the header marker.
C22_ErrorPrecedence ==
    /\ [](rw # <<>>
           => \A n \in BlockNumbers : \A h \in HeaderInputs(n) :
                LET r == append_header(rw[1], n, h) IN
                r.res.kind = "MarkerMismatch" => r.tables = rw[1])
    /\ [][(last'.op = "append_header" /\ rw # <<>>)
            => LET header_marker == MarkerOf(rw[1], "Header")
                   N == last'.block_number IN
               /\ (/\ N # header_marker
                   /\ last'.block_hash \in DOMAIN rw[1].block_hash_to_number)
                    => last'.res = MarkerMismatch(header_marker, N)
               /\ N # header_marker => last'.res.kind = "MarkerMismatch"
               /\ last'.res.kind = "BlockHashAlreadyExists"
                    => N = header_marker]_vars

\* Block 0 is committed with the hash 1, and a header of that hash offered
\* to block 2 is refused for the marker.
C22_Witness ==
    /\ last.op = "append_header"
    /\ last.block_number = 2
    /\ last.block_hash = 1
    /\ last.res = MarkerMismatch(1, 2)
    /\ MarkerOf(db, "Header") = 1
    /\ 1 \in DOMAIN db.block_hash_to_number

\* C23: append_header(N, H) succeeds iff N is the header marker and the
\* hash of H is not in the block-hash index, whatever the number and the
\* parent hash of H are; on success H is the header stored at N, and its
\* hash is indexed to N.
C23_SuccessCondition ==
    [][\A n \in BlockNumbers : \A h \in HeaderInputs(n) :
          AppendHeader(n, h) =>
             LET accepted == /\ n = MarkerOf(rw[1], "Header")
                             /\ h.block_hash \notin DOMAIN rw[1].block_hash_to_number
             IN /\ last'.res = Ok <=> accepted
                /\ accepted
                     => /\ rw' # <<>>
                        /\ n \in DOMAIN rw'[1].headers
                        /\ rw'[1].headers[n] = h
                        /\ rw'[1].block_hash_to_number[h.block_hash] = n]_vars

\* Block 1 is committed with a header whose number field is 0 and whose
\* parent hash is not the hash of block 0.
C23_Witness ==
    /\ last.op = "commit"
    /\ 1 \in DOMAIN db.headers
    /\ db.headers[1].number = 0
    /\ db.headers[1].parent_hash # db.headers[0].block_hash

\* The entries of a table but the one of key.
Without(table, key) ==
    [k \in (DOMAIN table) \ {key} |-> table[k]]

\* C24: an append_header(N, H) that succeeds changes, in the tables of its
\* transaction, the entry N of the headers, the entry of the hash of H in
\* the block-hash index and the Header marker, and nothing else: the other
\* markers, the headers and index entries stored before, and the bodies,
\* transaction index, state diffs, deployments and contract storage are
\* as they were; the commit stores the tables of the transaction as they
\* are.
C24_AppendHeaderFrame ==
    [][/\ (last'.op = "append_header" /\ last'.res = Ok /\ rw # <<>>)
            => LET old == rw[1]
                   new == rw'[1]
                   N == last'.block_number IN
               /\ Without(new.markers, "Header") = Without(old.markers, "Header")
               /\ new.markers["Header"] = N + 1
               /\ N \notin DOMAIN old.headers
               /\ Without(new.headers, N) = old.headers
               /\ last'.block_hash \notin DOMAIN old.block_hash_to_number
               /\ Without(new.block_hash_to_number, last'.block_hash)
                    = old.block_hash_to_number
               /\ new.bodies = old.bodies
               /\ new.transaction_hash_to_idx = old.transaction_hash_to_idx
               /\ new.state_diffs = old.state_diffs
               /\ new.deployed_at = old.deployed_at
               /\ new.contract_storage = old.contract_storage
       /\ last'.op = "commit" => db' = rw[1]]_vars

\* Block 1 gets its header in a transaction that began with the body and
\* the state diff of block 0, a deployment with a storage write, committed.
C24_Witness ==
    /\ last.op = "append_header"
    /\ last.block_number = 1
    /\ last.res = Ok
    /\ rw # <<>>
    /\ MarkerOf(rw[1], "Body") = 1
    /\ MarkerOf(rw[1], "State") = 1
    /\ Len(rw[1].bodies[0]) = 1
    /\ DOMAIN rw[1].contract_storage = {<<0, 0, 0>>}
    /\ 0 \in DOMAIN rw[1].deployed_at

\* ---- versioned_rpc ----

\* The attribute is of the form method(name = "m").
IsMethodName(attr) ==
    /\ attr.path = "method"
    /\ attr.meta = "List"
    /\ Len(attr.nested) = 1
    /\ attr.nested[1].key = "name"
    /\ attr.nested[1].value # None

\* The attributes of path method among attrs, in their order.
MethodAttrs(attrs) == SelectSeq(attrs, LAMBDA a : a.path = "method")

\* The trait generated for T and V is named T followed by V, has the
\* items of T with their signatures, and in place of every attribute
\* method(name = "m") the attribute method(name = "V_m").
Versioned(version, item_trait, generated) ==
    /\ generated.ident = item_trait.ident \o version
    /\ Len(generated.items) = Len(item_trait.items)
    /\ \A i \in 1..Len(item_trait.items) :
        LET item == item_trait.items[i]
            new_item == generated.items[i]
            old == MethodAttrs(item.attrs)
            new == MethodAttrs(new_item.attrs)
        IN /\ new_item.kind = item.kind
           /\ new_item.sig = item.sig
           /\ Len(new) = Len(old)
           /\ \A j \in 1..Len(old) :
                IsMethodName(old[j]) =>
                    /\ IsMethodName(new[j])
                    /\ new[j].nested[1].value
                         = Some(version \o <<"_">> \o old[j].nested[1].value[1])

\* The API method names that the generated trait has in place of the
\* attributes method(name = "m") of the trait.
VersionedNames(item_trait, generated) ==
    {MethodAttrs(generated.items[i].attrs)[j].nested[1].value[1] :
        <<i, j>> \in {p \in (1..Len(item_trait.items)) \X (1..2) :
                         /\ p[2] <= Len(MethodAttrs(item_trait.items[p[1]].attrs))
                         /\ IsMethodName(
                                MethodAttrs(item_trait.items[p[1]].attrs)[p[2]])}}

\* The API method name that the macro generates under version2 for the
\* attribute method(name = "m2").
NameUnder(version2, m2) ==
    new_attr(version2, Attr("method", "List", <<Arg("name", Some(m2))>>))
        .nested[1].value[1]

IsPrefix(p, s) == Len(p) <= Len(s) /\ SubSeq(s, 1, Len(p)) = p

\* C25: versioned_rpc(V) applied to trait T generates the trait
\* named T followed by V in which every attribute method(name = "m") has
\* become method(name = "V_m"), the signatures unchanged, and no API method
\* name generated under another version id equals one of its names.
C25_Original ==
    expanded # None =>
        LET e == expanded[1] IN
        /\ Versioned(e.version, e.item_trait, e.generated)
        /\ \A version2 \in Strings \ {e.version} : \A m2 \in Strings :
               NameUnder(version2, m2)
                   \notin VersionedNames(e.item_trait, e.generated)

\* What the macro does ensure: the trait generated is named T followed by
\* V, every attribute method(name = "m") has become method(name = "V_m"),
\* the signatures unchanged, and an API method name generated under
\* another version id equals one of its names only if one of the two
\* version ids followed by an underscore is a prefix of the other.
C25_VersionedRpc ==
    expanded # None =>
        LET e == expanded[1] IN
        /\ Versioned(e.version, e.item_trait, e.generated)
        /\ \A version2 \in Strings \ {e.version} : \A m2 \in Strings :
               NameUnder(version2, m2)
                       \in VersionedNames(e.item_trait, e.generated)
                   => \/ IsPrefix(e.version \o <<"_">>, version2)
                      \/ IsPrefix(version2 \o <<"_">>, e.version)

\* A trait with a method(name = "m") attribute under a doc comment has
\* been expanded for a version id that, followed by an underscore, is a
\* prefix of another version id, and the name generated is one that the
\* other version id generates too: the two versions clash.
C25_Witness ==
    /\ expanded # None
    /\ \E i \in 1..Len(expanded[1].item_trait.items) :
        /\ Len(expanded[1].item_trait.items[i].attrs) = 2
        /\ Len(expanded[1].generated.items[i].attrs) = 1
        /\ IsMethodName(expanded[1].item_trait.items[i].attrs[2])
    /\ \E version2 \in Strings \ {expanded[1].version} : \E m2 \in Strings :
        /\ IsPrefix(expanded[1].version \o <<"_">>, version2)
        /\ NameUnder(version2, m2)
               \in VersionedNames(expanded[1].item_trait,
                                  expanded[1].generated)

====
